---------------------------- MODULE Spec2Model ----------------------------
(***************************************************************************)
(* A model of the rendering core of the ray tracer: camera::render with    *)
(* its worker lambda render_lines, camera::initialize, camera::get_ray,    *)
(* camera::ray_color (src/include/camera.h), write_color                   *)
(* (src/include/color.h) and random_double (src/include/rtweekend.h).      *)
(*                                                                         *)
(* Numbers.  A colour channel is an integer counting twentieths            *)
(* (ColorUnit), which represents the background term of ray_color exactly  *)
(* for a in {0, 1/2, 1}.  An attenuation is a triple of integers.  The     *)
(* value stored in the pixel buffer is pixel_samples_scale * pixel_color,  *)
(* kept as the pair (rgb, den): the channel values rgb / (ColorUnit*den).  *)
(* The aspect ratio is a pair <<n, d>> for n/d.                            *)
(*                                                                         *)
(* The scene (hittable::hit) and the materials (material::scatter) are     *)
(* not part of the modelled sources; they are the environment, a small     *)
(* set of worlds whose answers depend on the ray.                          *)
(***************************************************************************)
EXTENDS Integers, Sequences, FiniteSets, TLC

\* ------------------------------------------------------------------ bounds

MaxWidth == 2       \* image_width is drawn from 1..MaxWidth
MaxThreads == 2     \* the hardware-concurrency hint is drawn from 0..MaxThreads
MaxSamples == 2     \* samples_per_pixel is drawn from 1..MaxSamples
MaxDepth == 2       \* max_depth is drawn from 0..MaxDepth
MaxRows == 8        \* SpecTall: image heights 1..MaxRows
MaxWorkers == 3     \* SpecTall: hints 0..MaxWorkers
MaxLongRows == 21   \* SpecLong: image heights 1..MaxLongRows

\* ------------------------------------------------------- program constants

ProgressStep == 10  \* remaining % 10 == 0
MaxColorValue == 255
ByteScale == 256    \* int(256 * intensity.clamp(x))
ColorUnit == 20     \* model unit of a colour channel: 1/20

Max(a, b) == IF a >= b THEN a ELSE b

\* ------------------------------------------------------------ input domains

AspectRatios == {<<1, 1>>, <<2, 1>>, <<2, 3>>}
Worlds == {"empty", "absorber", "diffuse", "room"}
Seeds == {0, 1}

\* identifiers of worker threads, enough for the largest worker count of any
\* specification of this module
Threads == 0 .. Max(MaxThreads, MaxWorkers) - 1

VARIABLES
  \* public configuration of the camera (camera.h:17-28)
  image_width, aspect_ratio, samples_per_pixel, max_depth,
  world,                 \* the scene passed to render
  hw_concurrency,        \* what std::thread::hardware_concurrency() returns
  seed_pool,             \* the values std::random_device may return
  \* private camera state written by initialize()
  image_height, pixel_samples_scale,
  \* locals of render
  image_buffer, scanlines_remaining, num_threads, lines_per_thread,
  threads,               \* number of std::thread objects emplaced so far
  spawn_t,               \* loop variable t of the spawn loop
  join_t,                \* position of the join loop
  out_k,                 \* position of the output loop
  main_pc,
  \* the two streams
  cout, clog,
  \* per worker thread: arguments and locals of render_lines
  w_pc, start_line, end_line, w_j, w_i, w_remaining,
  rng,                   \* thread_local generator of random_double
  \* history variables (not program state)
  writers,               \* writers[k]: the workers that stored to index k, in order
  decs,                  \* decs[row]: number of decrements made for that row
  reads,                 \* reads[k]: number of times the output loop read k
  \* one call of ray_color, step by step
  rc_stack,              \* activation records of ray_color, outermost first
  rc_pc,                 \* "off", "call", "return" or "done"
  rc_ret,                \* the value the last return statement returned
  rc_last,               \* history: budget of the activation that returned last
  rc_ray,                \* history: the ray the outermost call was given
  rc_calls,              \* history: number of recursive calls made
  rc_queries             \* history: number of world.hit calls made

cfg_vars == <<image_width, aspect_ratio, samples_per_pixel, max_depth, world,
              hw_concurrency, seed_pool>>
main_vars == <<image_height, pixel_samples_scale, num_threads,
               lines_per_thread, threads, spawn_t, join_t, out_k, main_pc>>
worker_vars == <<w_pc, start_line, end_line, w_j, w_i, w_remaining, rng>>
shared_vars == <<image_buffer, scanlines_remaining, cout, clog>>
hist_vars == <<writers, decs, reads>>
render_vars == <<cfg_vars, main_vars, worker_vars, shared_vars, hist_vars>>
ray_vars == <<rc_stack, rc_pc, rc_ret, rc_last, rc_ray, rc_calls, rc_queries>>

\* ------------------------------------------------------------ colours

Black == <<0, 0, 0>>
White == <<ColorUnit, ColorUnit, ColorUnit>>
SkyBlue == <<10, 14, 20>>

ColorAdd(c, d) == <<c[1] + d[1], c[2] + d[2], c[3] + d[3]>>

\* attenuation + colour, element-wise
ColorMul_Add(att, c) == <<att[1] + c[1], att[2] + c[2], att[3] + c[3]>>

\* attenuation * colour, element-wise
ColorMul(att, c) == <<att[1] * c[1], att[2] * c[2], att[3] * c[3]>>

\* pixel_samples_scale * pixel_color
ScaleColor(scale, c) == [rgb |-> c, den |-> scale.den]

\* a default-constructed element of std::vector<color>
ZeroPixel == [rgb |-> Black, den |-> 1]

\* ------------------------------------------------------------ randomness

\* the n-th number a generator seeded with seed produces, as a bucket: a
\* fixed sequence per seed (0,0,1,... for seed 0 and 0,1,1,... for seed 1)
Rand(seed, n) == (((n % 3) + seed) \div 2) % 2

\* random_double() on the calling thread's generator g
random_double(g) == [val |-> Rand(g.seed, g.n), rng |-> [g EXCEPT !.n = @ + 1]]

\* ------------------------------------------------------------ environment

\* world.hit(r, interval(0.001, infinity), rec)
Hit(wd, r) ==
  CASE wd = "empty" -> FALSE
    [] wd = "absorber" -> r.ox = 0
    [] wd = "diffuse" -> r.bounce < 1 + r.oy
    [] wd = "room" -> TRUE

\* rec.mat->scatter(r, rec, attenuation, scattered)
Scatter(wd, r) ==
  CASE wd = "absorber" -> [ok |-> FALSE, attenuation |-> Black, scattered |-> r]
    [] wd = "diffuse" -> [ok |-> TRUE, attenuation |-> <<1, 0, 2>>,
                          scattered |-> [r EXCEPT !.bounce = @ + 1]]
    [] OTHER -> [ok |-> TRUE, attenuation |-> <<1, 1, 1>>,
                 scattered |-> [r EXCEPT !.bounce = @ + 1]]

\* 2 * a, for a = 0.5 * (unit_direction.y + 1), as the ray's direction gives it
TwiceA(r) == (r.j + r.oy + r.bounce) % 3

\* ------------------------------------------------------------ camera

\* the quotient without the clamp
ImageHeight_NoClamp(width, aspect) == (width * aspect[2]) \div aspect[1]

\* int(image_width / aspect_ratio), clamped to at least 1
ImageHeight(width, aspect) ==
  LET h == (width * aspect[2]) \div aspect[1]
  IN  IF h < 1 THEN 1 ELSE h

\* 1.0 / samples_per_pixel
PixelSamplesScale(spp) == [num |-> 1, den |-> spp]

\* get_ray(i, j) for a pinhole camera (defocus_angle <= 0): sample_square
\* draws two numbers, the ray starts at the camera centre
get_ray(i, j, g) ==
  LET x == random_double(g)
      y == random_double(x.rng)
  IN  [ray |-> [i |-> i, j |-> j, ox |-> x.val, oy |-> y.val, bounce |-> 0],
       rng |-> y.rng]

\* (1.0 - a) * color(1,1,1) + a * color(0.5,0.7,1.0)
Background(r) ==
  LET a2 == TwiceA(r)
  IN  [c \in 1 .. 3 |-> ((2 - a2) * White[c] + a2 * SkyBlue[c]) \div 2]

\* a floor that lets a budget of 0 through
BounceLimit_Strict(depth) == depth < 0

\* if (depth <= 0): the ray bounce limit is exceeded
BounceLimit(depth) == depth <= 0

\* a recursive call that passes its own budget on
NextDepth_Same(depth) == depth

\* the budget passed to the recursive call: depth - 1
NextDepth(depth) == depth - 1

RECURSIVE ray_color(_, _, _)
ray_color(r, depth, wd) ==
  IF BounceLimit(depth) THEN Black
  ELSE IF Hit(wd, r)
       THEN LET s == Scatter(wd, r)
            IN  IF s.ok
                THEN ColorMul(s.attenuation,
                              ray_color(s.scattered, NextDepth(depth), wd))
                ELSE Black
       ELSE Background(r)

\* the sample loop of render_lines for pixel (i, j), from sample number
\* `sample` on with pixel_color accumulated so far
RECURSIVE SampleLoop(_, _, _, _, _, _, _, _)
SampleLoop(i, j, sample, pixel_color, g, spp, depth, wd) ==
  IF sample < spp
  THEN LET gr == get_ray(i, j, g)
       IN  SampleLoop(i, j, sample + 1,
                      ColorAdd(pixel_color, ray_color(gr.ray, depth, wd)),
                      gr.rng, spp, depth, wd)
  ELSE [pixel_color |-> pixel_color, rng |-> g]

\* an index with row and column exchanged
BufferIndex_Transposed(i, j, width) == i * width + j

\* j * image_width + i
BufferIndex(i, j, width) == j * width + i

\* ------------------------------------------------------------ write_color

\* a quantization that scales by the largest byte value
ToByte_255(num, den) ==
  IF num < 0 THEN 0
  ELSE IF num * 1000 > 999 * ColorUnit * den THEN (MaxColorValue * 999) \div 1000
  ELSE (MaxColorValue * num) \div (ColorUnit * den)

\* int(256 * intensity.clamp(x)) for the channel value x = num / (ColorUnit * den)
\* and intensity = [0.000, 0.999]
ToByte(num, den) ==
  IF num < 0 THEN 0
  ELSE IF num * 1000 > 999 * ColorUnit * den THEN (ByteScale * 999) \div 1000
  ELSE (ByteScale * num) \div (ColorUnit * den)

\* the line write_color appends to the stream
write_color(pixel) ==
  [kind |-> "pixel",
   r |-> ToByte(pixel.rgb[1], pixel.den),
   g |-> ToByte(pixel.rgb[2], pixel.den),
   b |-> ToByte(pixel.rgb[3], pixel.den)]

\* ------------------------------------------------------------ dividing work

\* the hint taken as it is, with no fallback
NumThreads_NoFallback(hint) == hint

\* hardware_concurrency() with the fallback to one thread
NumThreads(hint) == IF hint = 0 THEN 1 ELSE hint

\* a quotient rounded up
LinesPerThread_Ceil(height, nthreads) == (height + nthreads - 1) \div nthreads

\* image_height / num_threads.  The operands are an int >= 1 and an unsigned
\* >= 1: the division and the products below are done in unsigned arithmetic,
\* and every value is between 0 and image_height, so none wraps.
LinesPerThread(height, nthreads) == height \div nthreads

\* a start that reaches one row back into the previous worker's range
StartLine_Overlap(t, lpt) == IF t * lpt > 0 THEN t * lpt - 1 ELSE 0

\* int start = t * lines_per_thread
StartLine(t, lpt) == t * lpt

\* an end that forgets the remainder rows of the last worker
EndLine_NoRemainder(t, lpt, nthreads, height) == (t + 1) * lpt

\* int end = (t == num_threads - 1) ? image_height : (t + 1) * lines_per_thread
EndLine(t, lpt, nthreads, height) ==
  IF t = nthreads - 1 THEN height ELSE (t + 1) * lpt

\* a test that leaves out the value 0
ShouldReport_SkipZero(remaining) == remaining # 0 /\ remaining % ProgressStep = 0

\* remaining % 10 == 0 || remaining == 0  (C++ remainder truncates toward zero)
ShouldReport(remaining) ==
  LET m == IF remaining >= 0 THEN remaining % ProgressStep
           ELSE -((-remaining) % ProgressStep)
  IN  m = 0 \/ remaining = 0

\* a read of the counter that does not decrement it
Decrement_Load(x) == x

\* a counter that counts up
Decrement_Up(x) == x + 1

\* --scanlines_remaining
Decrement(x) == x - 1

\* image_buffer[k] = v
Store(buf, k, v) == IF k \in DOMAIN buf THEN [buf EXCEPT ![k] = v] ELSE buf

\* ------------------------------------------------------------ initial state

\* The camera as constructed and configured by the caller, render not yet
\* entered; no thread exists.
InitRender(widths, aspects, hints, spps, depths, worlds, seeds) ==
  /\ seed_pool = seeds
  /\ image_width \in widths
  /\ aspect_ratio \in aspects
  /\ hw_concurrency \in hints
  /\ samples_per_pixel \in spps
  /\ max_depth \in depths
  /\ world \in worlds
  /\ image_height = 0
  /\ pixel_samples_scale = [num |-> 0, den |-> 1]
  /\ image_buffer = <<>>
  /\ scanlines_remaining = 0
  /\ num_threads = 0
  /\ lines_per_thread = 0
  /\ threads = 0
  /\ spawn_t = 0
  /\ join_t = 0
  /\ out_k = 0
  /\ main_pc = "initialize"
  /\ cout = <<>>
  /\ clog = <<>>
  /\ w_pc = [t \in Threads |-> "none"]
  /\ start_line = [t \in Threads |-> 0]
  /\ end_line = [t \in Threads |-> 0]
  /\ w_j = [t \in Threads |-> 0]
  /\ w_i = [t \in Threads |-> 0]
  /\ w_remaining = [t \in Threads |-> 0]
  /\ rng = [t \in Threads |-> [seeded |-> FALSE, seed |-> 0, n |-> 0]]
  /\ writers = <<>>
  /\ decs = <<>>
  /\ reads = <<>>

\* no call of ray_color is followed step by step
RayOff ==
  /\ rc_stack = <<>>
  /\ rc_pc = "off"
  /\ rc_ret = Black
  /\ rc_last = 1
  /\ rc_ray = [i |-> 0, j |-> 0, ox |-> 0, oy |-> 0, bounce |-> 0]
  /\ rc_calls = 0
  /\ rc_queries = 0

\* ------------------------------------------------------------ render, main thread

\* initialize(): image_height and pixel_samples_scale
Initialize ==
  /\ main_pc = "initialize"
  /\ image_height' = ImageHeight(image_width, aspect_ratio)
  /\ pixel_samples_scale' = PixelSamplesScale(samples_per_pixel)
  /\ main_pc' = "header"
  /\ UNCHANGED <<ray_vars, cfg_vars, worker_vars, shared_vars, hist_vars, num_threads,
                 lines_per_thread, threads, spawn_t, join_t, out_k>>

\* std::cout << "P3\n" << image_width << " " << image_height << "\n255\n"
WriteHeader ==
  /\ main_pc = "header"
  /\ cout' = Append(cout, [kind |-> "header", magic |-> "P3",
                           width |-> image_width, height |-> image_height,
                           maxval |-> MaxColorValue])
  /\ main_pc' = "alloc"
  /\ UNCHANGED <<ray_vars, cfg_vars, worker_vars, hist_vars, image_buffer,
                 scanlines_remaining, clog, image_height, pixel_samples_scale,
                 num_threads, lines_per_thread, threads, spawn_t, join_t, out_k>>

\* image_buffer(image_width * image_height), scanlines_remaining{image_height}
Allocate ==
  /\ main_pc = "alloc"
  /\ image_buffer' = [k \in 0 .. image_width * image_height - 1 |-> ZeroPixel]
  /\ scanlines_remaining' = image_height
  /\ writers' = [k \in 0 .. image_width * image_height - 1 |-> <<>>]
  /\ reads' = [k \in 0 .. image_width * image_height - 1 |-> 0]
  /\ decs' = [j \in 0 .. image_height - 1 |-> 0]
  /\ main_pc' = "detect"
  /\ UNCHANGED <<ray_vars, cfg_vars, worker_vars, cout, clog, image_height,
                 pixel_samples_scale, num_threads, lines_per_thread, threads,
                 spawn_t, join_t, out_k>>

\* num_threads = hardware_concurrency(); if (num_threads == 0) num_threads = 1
DetectThreads ==
  /\ main_pc = "detect"
  /\ num_threads' = NumThreads(hw_concurrency)
  /\ main_pc' = "divide"
  /\ UNCHANGED <<ray_vars, cfg_vars, worker_vars, shared_vars, hist_vars, image_height,
                 pixel_samples_scale, lines_per_thread, threads, spawn_t,
                 join_t, out_k>>

\* int lines_per_thread = image_height / num_threads; t = 0
DivideWork ==
  /\ main_pc = "divide"
  /\ lines_per_thread' = LinesPerThread(image_height, num_threads)
  /\ spawn_t' = 0
  /\ main_pc' = "spawn"
  /\ UNCHANGED <<ray_vars, cfg_vars, worker_vars, shared_vars, hist_vars, image_height,
                 pixel_samples_scale, num_threads, threads, join_t, out_k>>

\* one iteration of the spawn loop: threads.emplace_back(render_lines, start, end);
\* the new thread is at the head of its row loop with j = start_line
SpawnThread ==
  /\ main_pc = "spawn"
  /\ spawn_t < num_threads
  /\ LET t == spawn_t
     IN  /\ start_line' = [start_line EXCEPT ![t] = StartLine(t, lines_per_thread)]
         /\ end_line' = [end_line EXCEPT
                           ![t] = EndLine(t, lines_per_thread, num_threads,
                                          image_height)]
         /\ w_j' = [w_j EXCEPT ![t] = StartLine(t, lines_per_thread)]
         /\ w_pc' = [w_pc EXCEPT ![t] = "loop"]
  /\ threads' = threads + 1
  /\ spawn_t' = spawn_t + 1
  /\ main_pc' = IF spawn_t + 1 < num_threads THEN "spawn" ELSE "join"
  /\ UNCHANGED <<ray_vars, cfg_vars, shared_vars, hist_vars, w_i, w_remaining, rng,
                 image_height, pixel_samples_scale, num_threads,
                 lines_per_thread, join_t, out_k>>

\* a join loop that does not wait for the thread
JoinThread_NoWait ==
  /\ main_pc = "join"
  /\ join_t < threads
  /\ join_t' = join_t + 1
  /\ main_pc' = IF join_t + 1 < threads THEN "join" ELSE "report"
  /\ UNCHANGED <<ray_vars, cfg_vars, shared_vars, hist_vars, worker_vars,
                 image_height, pixel_samples_scale, num_threads,
                 lines_per_thread, threads, spawn_t, out_k>>

\* one iteration of the join loop: t.join() returns once the thread has finished
JoinThread ==
  /\ main_pc = "join"
  /\ join_t < threads
  /\ w_pc[join_t] = "finished"
  /\ w_pc' = [w_pc EXCEPT ![join_t] = "joined"]
  /\ join_t' = join_t + 1
  /\ main_pc' = IF join_t + 1 < threads THEN "join" ELSE "report"
  /\ UNCHANGED <<ray_vars, cfg_vars, shared_vars, hist_vars, start_line, end_line, w_j,
                 w_i, w_remaining, rng, image_height, pixel_samples_scale,
                 num_threads, lines_per_thread, threads, spawn_t, out_k>>

\* std::clog << "\rDone. Render time: " << elapsed.count() << "s\n"
ReportDone ==
  /\ main_pc = "report"
  /\ clog' = Append(clog, [kind |-> "done", remaining |-> 0, by |-> -1])
  /\ out_k' = 0
  /\ main_pc' = IF 0 \in DOMAIN image_buffer THEN "output" ELSE "done"
  /\ UNCHANGED <<ray_vars, cfg_vars, worker_vars, hist_vars, image_buffer,
                 scanlines_remaining, cout, image_height, pixel_samples_scale,
                 num_threads, lines_per_thread, threads, spawn_t, join_t>>

\* one iteration of the output loop: write_color(std::cout, pixel)
WritePixel ==
  /\ main_pc = "output"
  /\ out_k \in DOMAIN image_buffer
  /\ cout' = Append(cout, write_color(image_buffer[out_k]))
  /\ reads' = [reads EXCEPT ![out_k] = @ + 1]
  /\ out_k' = out_k + 1
  /\ main_pc' = IF out_k + 1 \in DOMAIN image_buffer THEN "output" ELSE "done"
  /\ UNCHANGED <<ray_vars, cfg_vars, worker_vars, image_buffer, scanlines_remaining,
                 clog, writers, decs, image_height,
                 pixel_samples_scale, num_threads, lines_per_thread, threads,
                 spawn_t, join_t>>

\* ------------------------------------------------------------ render_lines

\* for (j ...; j < end_line; ...): the row loop is entered and the counter is
\* decremented atomically: int remaining = --scanlines_remaining.  The local
\* `remaining` is kept only while the progress line that prints it is pending
\* (it is dead otherwise, and held at 0).
LineBegin(t) ==
  /\ w_pc[t] = "loop"
  /\ w_j[t] < end_line[t]
  /\ LET remaining == Decrement(scanlines_remaining)
     IN  /\ scanlines_remaining' = remaining
         /\ w_remaining' = [w_remaining EXCEPT
                              ![t] = IF ShouldReport(remaining) THEN remaining
                                     ELSE 0]
         /\ w_pc' = [w_pc EXCEPT
                       ![t] = IF ShouldReport(remaining) THEN "progress" ELSE "pixel"]
  /\ w_i' = [w_i EXCEPT ![t] = 0]
  /\ decs' = IF w_j[t] \in DOMAIN decs
             THEN [decs EXCEPT ![w_j[t]] = @ + 1] ELSE decs
  /\ UNCHANGED <<ray_vars, cfg_vars, main_vars, image_buffer, cout, clog, start_line,
                 end_line, w_j, rng, writers, reads>>

\* std::clog << "\rScanlines remaining: " << remaining << " " << std::flush
ReportProgress(t) ==
  /\ w_pc[t] = "progress"
  /\ clog' = Append(clog, [kind |-> "progress", remaining |-> w_remaining[t],
                           by |-> t])
  /\ w_pc' = [w_pc EXCEPT ![t] = "pixel"]
  /\ w_remaining' = [w_remaining EXCEPT ![t] = 0]
  /\ UNCHANGED <<ray_vars, cfg_vars, main_vars, hist_vars, image_buffer,
                 scanlines_remaining, cout, start_line, end_line, w_j, w_i,
                 rng>>

\* one iteration of the column loop: the sample loop for pixel (i, j) and the
\* store into the buffer; after the last column, j++.  The thread's generator
\* is seeded from std::random_device when random_double is first called.
RenderPixel(t) ==
  /\ w_pc[t] = "pixel"
  /\ w_i[t] < image_width
  /\ \E s \in seed_pool :
       LET g == IF rng[t].seeded THEN rng[t]
                ELSE [seeded |-> TRUE, seed |-> s, n |-> 0]
           i == w_i[t]
           j == w_j[t]
           res == SampleLoop(i, j, 0, Black, g, samples_per_pixel, max_depth,
                             world)
           v == ScaleColor(pixel_samples_scale, res.pixel_color)
           k == BufferIndex(i, j, image_width)
       IN  /\ (rng[t].seeded => s = rng[t].seed)
           /\ rng' = [rng EXCEPT ![t] = res.rng]
           /\ image_buffer' = Store(image_buffer, k, v)
           /\ writers' = IF k \in DOMAIN writers
                         THEN [writers EXCEPT ![k] = Append(@, t)]
                         ELSE (k :> <<t>>) @@ writers
  /\ IF w_i[t] + 1 < image_width
     THEN /\ w_i' = [w_i EXCEPT ![t] = @ + 1]
          /\ UNCHANGED <<w_j, w_pc>>
     ELSE /\ w_i' = [w_i EXCEPT ![t] = @ + 1]
          /\ w_j' = [w_j EXCEPT ![t] = @ + 1]
          /\ w_pc' = [w_pc EXCEPT ![t] = "loop"]
  /\ UNCHANGED <<ray_vars, cfg_vars, main_vars, scanlines_remaining, cout, clog,
                 start_line, end_line, w_remaining, decs, reads>>

\* a thread that returns only after the thread before it has finished
WorkerExit_AfterPrevious(t) ==
  /\ w_pc[t] = "loop"
  /\ ~(w_j[t] < end_line[t])
  /\ t > 0 => w_pc[t - 1] \in {"finished", "joined"}
  /\ w_pc' = [w_pc EXCEPT ![t] = "finished"]
  /\ UNCHANGED <<ray_vars, cfg_vars, main_vars, shared_vars, hist_vars, start_line,
                 end_line, w_j, w_i, w_remaining, rng>>

\* the row loop ends (j >= end_line): render_lines returns, the thread finishes
WorkerExit(t) ==
  /\ w_pc[t] = "loop"
  /\ ~(w_j[t] < end_line[t])
  /\ w_pc' = [w_pc EXCEPT ![t] = "finished"]
  /\ UNCHANGED <<ray_vars, cfg_vars, main_vars, shared_vars, hist_vars, start_line,
                 end_line, w_j, w_i, w_remaining, rng>>

\* ------------------------------------------------------------ specifications

vars == <<render_vars, ray_vars>>

MainStep ==
  \/ Initialize
  \/ WriteHeader
  \/ Allocate
  \/ DetectThreads
  \/ DivideWork
  \/ SpawnThread
  \/ JoinThread
  \/ ReportDone
  \/ WritePixel

WorkerStep(t) ==
  \/ LineBegin(t)
  \/ ReportProgress(t)
  \/ RenderPixel(t)
  \/ WorkerExit(t)

Next == MainStep \/ \E t \in Threads : WorkerStep(t)

\* one render of a small image
Init ==
  InitRender(1 .. MaxWidth, AspectRatios, 0 .. MaxThreads, 1 .. MaxSamples,
             0 .. MaxDepth, Worlds, Seeds)
  /\ RayOff

Spec == Init /\ [][Next]_vars

\* the sample counts after which a thread's generator is back in the state
\* it had before the pixel (each sample draws two numbers)
FixedSampleCounts ==
  {s \in 1 .. 2 * MaxSamples : \A n \in 0 .. 5 : Rand(0, n + 2 * s) = Rand(0, n)}

\* one render in which every thread's generator has the same seed and every
\* pixel draws the same numbers: the colour of a pixel is a function of its
\* coordinates and the scene alone
InitFixed ==
  InitRender(1 .. MaxWidth, AspectRatios, 0 .. MaxThreads, FixedSampleCounts,
             0 .. MaxDepth, Worlds, {0})
  /\ RayOff

SpecFixed == InitFixed /\ [][Next]_vars

\* one render of a tall, one-pixel-wide image of an empty scene
InitTall ==
  InitRender({1}, {<<1, h>> : h \in 1 .. MaxRows}, 0 .. MaxWorkers, {1}, {1},
             {"empty"}, {0})
  /\ RayOff

SpecTall == InitTall /\ [][Next]_vars

\* the scheduler lets the main thread and every worker thread run again and
\* again; no thread is starved
FairSpecTall ==
  SpecTall /\ WF_vars(MainStep) /\ \A t \in Threads : WF_vars(WorkerStep(t))

\* one render of an image with enough rows for several progress lines
InitLong ==
  InitRender({1}, {<<1, h>> : h \in 1 .. MaxLongRows}, 0 .. MaxThreads, {1},
             {1}, {"empty"}, {0})
  /\ RayOff

SpecLong == InitLong /\ [][Next]_vars

\* ------------------------------------------------------------ ray_color, step by step

\* the innermost activation
Top == rc_stack[Len(rc_stack)]

\* the activation returns value c to its caller, or to render_lines
Return(c) ==
  /\ rc_ret' = c
  /\ rc_last' = Top.depth
  /\ rc_stack' = SubSeq(rc_stack, 1, Len(rc_stack) - 1)
  /\ rc_pc' = IF Len(rc_stack) = 1 THEN "done" ELSE "return"

\* if (depth <= 0) return color(0, 0, 0)
RayFloor ==
  /\ rc_pc = "call"
  /\ BounceLimit(Top.depth)
  /\ Return(Black)
  /\ UNCHANGED <<render_vars, rc_ray, rc_calls, rc_queries>>

\* world.hit fails: the background term is returned
RayMiss ==
  /\ rc_pc = "call"
  /\ ~BounceLimit(Top.depth)
  /\ ~Hit(world, Top.r)
  /\ Return(Background(Top.r))
  /\ rc_queries' = rc_queries + 1
  /\ UNCHANGED <<render_vars, rc_ray, rc_calls>>

\* an absorbed ray that falls through to the background term
RayAbsorb_FallThrough ==
  /\ rc_pc = "call"
  /\ ~BounceLimit(Top.depth)
  /\ Hit(world, Top.r)
  /\ ~Scatter(world, Top.r).ok
  /\ Return(Background(Top.r))
  /\ rc_queries' = rc_queries + 1
  /\ UNCHANGED <<render_vars, rc_ray, rc_calls>>

\* world.hit succeeds and the material absorbs: return color(0, 0, 0)
RayAbsorb ==
  /\ rc_pc = "call"
  /\ ~BounceLimit(Top.depth)
  /\ Hit(world, Top.r)
  /\ ~Scatter(world, Top.r).ok
  /\ Return(Black)
  /\ rc_queries' = rc_queries + 1
  /\ UNCHANGED <<render_vars, rc_ray, rc_calls>>

\* world.hit succeeds and the material scatters: ray_color calls itself with
\* the scattered ray and depth - 1, keeping the attenuation for the product
RayScatter ==
  /\ rc_pc = "call"
  /\ ~BounceLimit(Top.depth)
  /\ Hit(world, Top.r)
  /\ Scatter(world, Top.r).ok
  /\ LET s == Scatter(world, Top.r)
     IN  rc_stack' = Append([rc_stack EXCEPT
                               ![Len(rc_stack)].attenuation = s.attenuation],
                            [r |-> s.scattered, depth |-> NextDepth(Top.depth),
                             attenuation |-> Black])
  /\ rc_calls' = rc_calls + 1
  /\ rc_queries' = rc_queries + 1
  /\ UNCHANGED <<render_vars, rc_ray, rc_pc, rc_ret, rc_last>>

\* the recursive call has returned: return attenuation * (its value)
RayReturn ==
  /\ rc_pc = "return"
  /\ Return(ColorMul(Top.attenuation, rc_ret))
  /\ UNCHANGED <<render_vars, rc_ray, rc_calls, rc_queries>>

NextRay == RayFloor \/ RayMiss \/ RayAbsorb \/ RayScatter \/ RayReturn

\* ray_color(r, max_depth, world) has just been called with a ray of get_ray
InitRay ==
  /\ InitRender(1 .. MaxWidth, {<<1, 1>>}, {1}, {1}, -1 .. MaxDepth + 1, Worlds,
                Seeds)
  /\ \E i \in 0 .. image_width - 1,
        j \in 0 .. ImageHeight(image_width, aspect_ratio) - 1,
        s \in seed_pool, n \in 0 .. 1 :
       rc_stack = <<[r |-> get_ray(i, j, [seeded |-> TRUE, seed |-> s,
                                           n |-> n]).ray,
                     depth |-> max_depth, attenuation |-> Black]>>
  /\ rc_ray = rc_stack[1].r
  /\ rc_pc = "call"
  /\ rc_ret = Black
  /\ rc_last = 1
  /\ rc_calls = 0
  /\ rc_queries = 0

SpecRay == InitRay /\ [][NextRay]_vars

\* a call that has started runs on: hit and scatter are assumed to return
FairSpecRay == SpecRay /\ WF_vars(NextRay)

\* ------------------------------------------------------------ write_color alone

\* channel numerators given to write_color: -5.0, just below 0, 0, 0.5, 0.95,
\* 1.0 and 1.25 when the pixel is one sample, in units of 1/ColorUnit
ChannelNums == {-100, -1, 0, 10, 19, 20, 25}

\* the output loop about to start on a buffer of two pixels that one worker
\* has filled: the first pixel takes any three channels, the second is grey
InitColor ==
  /\ seed_pool = {0}
  /\ image_width = 2
  /\ aspect_ratio = <<2, 1>>
  /\ hw_concurrency = 1
  /\ samples_per_pixel \in 1 .. MaxSamples
  /\ max_depth = 1
  /\ world = "empty"
  /\ image_height = ImageHeight(image_width, aspect_ratio)
  /\ pixel_samples_scale = PixelSamplesScale(samples_per_pixel)
  /\ \E r \in ChannelNums, g \in ChannelNums, b \in ChannelNums,
        v \in ChannelNums :
       image_buffer = (0 :> [rgb |-> <<r, g, b>>, den |-> samples_per_pixel]
                       @@ 1 :> [rgb |-> <<v, v, v>>, den |-> samples_per_pixel])
  /\ scanlines_remaining = 0
  /\ num_threads = NumThreads(hw_concurrency)
  /\ lines_per_thread = image_height \div num_threads
  /\ threads = num_threads
  /\ spawn_t = num_threads
  /\ join_t = num_threads
  /\ out_k = 0
  /\ main_pc = "output"
  /\ cout = <<[kind |-> "header", magic |-> "P3", width |-> image_width,
               height |-> image_height, maxval |-> MaxColorValue]>>
  /\ clog = <<[kind |-> "progress", remaining |-> 0, by |-> 0],
              [kind |-> "done", remaining |-> 0, by |-> -1]>>
  /\ w_pc = [t \in Threads |-> IF t = 0 THEN "joined" ELSE "none"]
  /\ start_line = [t \in Threads |-> 0]
  /\ end_line = [t \in Threads |-> IF t = 0 THEN image_height ELSE 0]
  /\ w_j = [t \in Threads |-> IF t = 0 THEN image_height ELSE 0]
  /\ w_i = [t \in Threads |-> IF t = 0 THEN image_width ELSE 0]
  /\ w_remaining = [t \in Threads |-> 0]
  /\ rng = [t \in Threads |->
              IF t = 0
              THEN [seeded |-> TRUE, seed |-> 0,
                    n |-> 2 * samples_per_pixel * image_width * image_height]
              ELSE [seeded |-> FALSE, seed |-> 0, n |-> 0]]
  /\ writers = (0 :> <<0>> @@ 1 :> <<0>>)
  /\ decs = (0 :> 1)
  /\ reads = (0 :> 0 @@ 1 :> 0)
  /\ RayOff

\* the output loop
NextColor == WritePixel

SpecColor == InitColor /\ [][NextColor]_vars

\* ------------------------------------------------------------ properties

\* the worker threads created so far
Spawned == 0 .. threads - 1

\* the main thread has left the join loop: every worker has been joined
AfterJoins == main_pc \in {"report", "output", "done"}

\* the buffer and the counter exist
Allocated == main_pc \notin {"initialize", "header", "alloc"}

\* the workers whose range [start_line, end_line) contains row
RowOwners(row) ==
  {t \in Spawned : start_line[t] <= row /\ row < end_line[t]}

\* C1: the row ranges render hands to its workers are within [0, H), no row
\* is in two ranges, and once the spawn loop has ended there are num_threads
\* ranges and every row of [0, H) is in exactly one.
C1_PartitionCover ==
  /\ \A t \in Spawned :
       \A row \in start_line[t] .. end_line[t] - 1 : row \in 0 .. image_height - 1
  /\ \A row \in 0 .. image_height - 1 : Cardinality(RowOwners(row)) <= 1
  /\ main_pc \in {"join", "report", "output", "done"} =>
       /\ threads = num_threads
       /\ num_threads >= 1
       /\ image_height >= 1
       /\ \A row \in 0 .. image_height - 1 : Cardinality(RowOwners(row)) = 1

\* C1 witness: H = 7 rows divided among T = 3 workers, all of them created.
C1_Witness ==
  /\ main_pc = "join"
  /\ image_height = 7
  /\ num_threads = 3
  /\ threads = 3
  /\ end_line[2] - start_line[2] = 3

\* C2: every store to the buffer made by worker t is to an index of
\* [start_line*width, end_line*width), and all stores to one index are made
\* by the same worker.
C2_ExclusiveWrites ==
  \A k \in DOMAIN writers :
    \A n \in 1 .. Len(writers[k]) :
      LET t == writers[k][n]
      IN  /\ start_line[t] * image_width <= k
          /\ k < end_line[t] * image_width
          /\ k \in DOMAIN image_buffer
          /\ \A m \in 1 .. Len(writers[k]) : writers[k][m] = t

\* C2 witness: two workers are both inside their column loops and each has
\* already stored a pixel.
C2_Witness ==
  /\ w_pc[0] = "pixel"
  /\ w_pc[1] = "pixel"
  /\ \E k1, k2 \in DOMAIN writers : writers[k1] = <<0>> /\ writers[k2] = <<1>>

\* C3: nothing, neither the header nor a pixel line, is on the image output
\* stream before every worker has been joined.
C3_NoOutputBeforeJoins == cout # <<>> => AfterJoins

\* C4: whenever a buffer element has been read for output every worker has
\* been joined, and from the first read on the buffer no longer changes.
C4_ReadAfterJoins ==
  /\ [](((out_k > 0 \/ main_pc = "output" \/ \E k \in DOMAIN reads : reads[k] > 0)
          => (num_threads >= 1 /\ \A t \in 0 .. num_threads - 1 : w_pc[t] = "joined")))
  /\ [][(main_pc = "output" \/ out_k > 0) => image_buffer' = image_buffer]_vars

\* C4 witness: the output loop has read an element of a buffer that two
\* workers filled.
C4_Witness ==
  /\ main_pc = "output"
  /\ out_k > 0
  /\ num_threads = 2
  /\ \E k \in DOMAIN writers : writers[k] = <<1>>

\* the sum of the samples_per_pixel sample colours of pixel (col, row), drawn
\* by a generator with the given seed from its n0-th number on
RECURSIVE SampleSum(_, _, _, _, _)
SampleSum(col, row, seed, n0, count) ==
  IF count = 0 THEN Black
  ELSE ColorAdd(
         SampleSum(col, row, seed, n0, count - 1),
         ray_color([i |-> col, j |-> row,
                    ox |-> Rand(seed, n0 + 2 * (count - 1)),
                    oy |-> Rand(seed, n0 + 2 * (count - 1) + 1),
                    bounce |-> 0],
                   max_depth, world))

\* the scaled sample average of pixel (col, row), rendered by worker t as
\* the ((row - start_line) * width + col)-th pixel of its range
PixelAverage(col, row, t) ==
  [rgb |-> SampleSum(col, row, rng[t].seed,
                     2 * samples_per_pixel *
                       ((row - start_line[t]) * image_width + col),
                     samples_per_pixel),
   den |-> samples_per_pixel]

\* C5: when the workers have been joined the buffer has width*height
\* elements, each stored exactly once, and the element at row*width+col is
\* the scaled sample average of pixel (col, row).
C5_BufferPopulated ==
  AfterJoins =>
    /\ DOMAIN image_buffer = 0 .. image_width * image_height - 1
    /\ DOMAIN writers = DOMAIN image_buffer
    /\ \A row \in 0 .. image_height - 1 :
         \A col \in 0 .. image_width - 1 :
           LET k == row * image_width + col
           IN  /\ Len(writers[k]) = 1
               /\ image_buffer[k] = PixelAverage(col, row, writers[k][1])

\* C5 witness: the output stage starts on a 2x3 image of the diffuse scene
\* rendered by two workers with two samples per pixel.
C5_Witness ==
  /\ main_pc = "output"
  /\ out_k = 0
  /\ image_width = 2
  /\ image_height = 3
  /\ num_threads = 2
  /\ samples_per_pixel = 2
  /\ world = "diffuse"
  /\ max_depth = 2
  /\ \E k \in DOMAIN image_buffer : image_buffer[k].rgb # Black

\* C6: with max_depth = 0 every element of the buffer is black at every
\* moment of the render.
C6_DepthZeroBlack ==
  max_depth = 0 => \A k \in DOMAIN image_buffer : image_buffer[k].rgb = Black

\* C6 witness: max_depth = 0, an empty scene (whose background is not black),
\* two samples per pixel, two workers, and every pixel stored.
C6_Witness ==
  /\ max_depth = 0
  /\ world = "empty"
  /\ samples_per_pixel = 2
  /\ num_threads = 2
  /\ AfterJoins
  /\ \A k \in DOMAIN writers : Len(writers[k]) = 1
  /\ Background([i |-> 0, j |-> 0, ox |-> 0, oy |-> 0, bounce |-> 0]) # Black

\* what C7 says of every state of a call of ray_color with budget max_depth
RayColorBudget ==
  /\ rc_calls <= Max(max_depth, 0)
  /\ Len(rc_stack) <= Max(max_depth, 0) + 1
  /\ rc_stack # <<>> => rc_stack[1].depth = max_depth
  /\ \A k \in 1 .. Len(rc_stack) - 1 :
       /\ rc_stack[k + 1].depth = rc_stack[k].depth - 1
       /\ rc_stack[k].depth > 0
  /\ rc_last <= 0 => rc_ret = Black
  /\ (rc_pc = "done" /\ max_depth <= 0) =>
       (rc_calls = 0 /\ rc_queries = 0 /\ rc_ret = Black)

\* C7: a call of ray_color with budget d returns; it makes at most max(d, 0)
\* nested recursive calls, each with the budget of its caller less 1, and an
\* activation with budget <= 0 returns black without recursing.
C7_RayColorTerminates == []RayColorBudget /\ <>(rc_pc = "done")

\* C7 witness: in the closed room, where every ray scatters, a call with
\* budget 2 has made its 2 nested calls and returned black.
C7_Witness ==
  /\ rc_pc = "done"
  /\ world = "room"
  /\ max_depth = 2
  /\ rc_calls = 2
  /\ rc_queries = 2
  /\ rc_ret = Black

\* the rows whose decrement has been made
RowsCounted == {j \in DOMAIN decs : decs[j] > 0}

\* C8: the counter starts at H; every row is counted at most once and the
\* counter is H less the number of rows counted, so it is never negative;
\* once the workers are joined every row has been counted once and the
\* counter is 0.
C8_CounterCountsRows ==
  Allocated =>
    /\ DOMAIN decs = 0 .. image_height - 1
    /\ \A j \in DOMAIN decs : decs[j] <= 1
    /\ scanlines_remaining = image_height - Cardinality(RowsCounted)
    /\ scanlines_remaining >= 0
    /\ main_pc = "detect" => scanlines_remaining = image_height
    /\ AfterJoins =>
         /\ scanlines_remaining = 0
         /\ \A j \in DOMAIN decs : decs[j] = 1

\* C8 witness: three workers have counted the 7 rows of the image and have
\* been joined.
C8_Witness ==
  /\ main_pc = "report"
  /\ image_height = 7
  /\ num_threads = 3
  /\ scanlines_remaining = 0

\* the rows all of whose pixels have been stored
RowsRendered ==
  {j \in 0 .. image_height - 1 :
     \A i \in 0 .. image_width - 1 : writers[j * image_width + i] # <<>>}

\* C9: a row is counted after its pixels have been stored: at every moment
\* at least H - scanlines_remaining rows are fully rendered.
C9_CountedRowsAreRendered ==
  Allocated =>
    Cardinality(RowsRendered) >= image_height - scanlines_remaining

\* the progress values on the diagnostic stream, in emission order
ProgressLines == SelectSeq(clog, LAMBDA e : e.kind = "progress")

\* a sequence of records whose remaining fields strictly decrease
StrictlyDecreasing(q) ==
  \A m \in 1 .. Len(q) - 1 : q[m].remaining > q[m + 1].remaining

\* C10: the progress values written to the diagnostic stream are strictly
\* decreasing in emission order.
C10_EmissionDecreasing == StrictlyDecreasing(ProgressLines)

\* C10 as amended: the values one worker writes are strictly decreasing in
\* emission order, every value written is above the counter's present value
\* or equal to it, and with one worker the whole sequence is strictly
\* decreasing.
C10_PerWorkerDecreasing ==
  /\ \A t \in Threads :
       StrictlyDecreasing(SelectSeq(ProgressLines, LAMBDA e : e.by = t))
  /\ \A m \in 1 .. Len(ProgressLines) :
       /\ ProgressLines[m].remaining >= scanlines_remaining
       /\ ProgressLines[m].remaining < image_height
  /\ num_threads = 1 => StrictlyDecreasing(ProgressLines)

\* C10 witness: two workers, and the value 10 is on the stream before the
\* value 20.
C10_Witness ==
  /\ num_threads = 2
  /\ \E m \in 1 .. Len(ProgressLines) - 1 :
       /\ ProgressLines[m].remaining = 10
       /\ ProgressLines[m + 1].remaining = 20
       /\ ProgressLines[m].by # ProgressLines[m + 1].by

\* the number of pixels of the image
PixelCount == image_width * image_height

\* the pixel lines on the image stream
PixelLines == SelectSeq(cout, LAMBDA e : e.kind = "pixel")

\* C11: the worker count is at least 1, is 1 when the hint is 0 and the hint
\* otherwise, from its detection to the end of the render; with hint 0 the
\* one worker has the range [0, H), and the finished render has stored every
\* pixel once and written the header and one line per pixel.
C11_FallbackToOneWorker ==
  /\ main_pc \notin {"initialize", "header", "alloc", "detect"} =>
       /\ num_threads >= 1
       /\ num_threads = (IF hw_concurrency = 0 THEN 1 ELSE hw_concurrency)
       /\ threads <= num_threads
  /\ main_pc \in {"join", "report", "output", "done"} =>
       /\ threads = num_threads
       /\ hw_concurrency = 0 =>
            (threads = 1 /\ start_line[0] = 0 /\ end_line[0] = image_height)
  /\ main_pc = "done" =>
       /\ \A k \in 0 .. PixelCount - 1 : Len(writers[k]) = 1
       /\ Len(cout) = 1 + PixelCount
       /\ cout[1].kind = "header"
       /\ Len(PixelLines) = PixelCount

\* C11 witness: a render with hint 0 of an image of 2x3 pixels has ended.
C11_Witness ==
  /\ hw_concurrency = 0
  /\ main_pc = "done"
  /\ num_threads = 1
  /\ image_width = 2
  /\ image_height = 3
  /\ w_pc[0] = "joined"

\* C12: the image stream starts with one header holding image_width,
\* max(1, floor(image_width / aspect_ratio)) and 255; everything after it is
\* a pixel line, the k-th being write_color of buffer element k; the finished
\* render has written width*height pixel lines; no diagnostic line is on it.
C12_OutputStream ==
  /\ cout # <<>> =>
       /\ cout[1] = [kind |-> "header", magic |-> "P3", width |-> image_width,
                     height |-> (LET q == (image_width * aspect_ratio[2])
                                            \div aspect_ratio[1]
                                 IN  IF q >= 1 THEN q ELSE 1),
                     maxval |-> 255]
       /\ cout[1].height = image_height
  /\ \A m \in 2 .. Len(cout) :
       /\ cout[m].kind = "pixel"
       /\ m - 2 \in DOMAIN image_buffer
       /\ cout[m] = write_color(image_buffer[m - 2])
  /\ \A m \in 1 .. Len(cout) : cout[m].kind \notin {"progress", "done"}
  /\ Len(cout) <= 1 + PixelCount
  /\ main_pc = "done" => Len(cout) = 1 + PixelCount

\* C12 witness: the render of a 2x1 image has ended with a header and two
\* pixel lines on the stream.
C12_Witness ==
  /\ main_pc = "done"
  /\ image_width = 2
  /\ image_height = 1
  /\ Len(cout) = 3
  /\ cout[1].height = 1
  /\ Len(PixelLines) = 2

\* channel c of a pixel line
ChannelByte(line, c) == IF c = 1 THEN line.r ELSE IF c = 2 THEN line.g ELSE line.b

\* C13: every channel of every pixel line is a byte in [0, 255] that depends
\* on its own channel value x only: 255 when x > 0.999 (so for 1.0), 0 when
\* x <= 0 (so for 0.0 and -5.0), floor(256 * x) in between; and a channel
\* value that is not smaller never gives a smaller byte.
C13_Quantization ==
  \A m \in 2 .. Len(cout) : \A c \in 1 .. 3 :
    LET num  == image_buffer[m - 2].rgb[c]
        unit == ColorUnit * image_buffer[m - 2].den
        byte == ChannelByte(cout[m], c)
    IN  /\ byte \in 0 .. 255
        /\ num * 1000 > 999 * unit => byte = 255
        /\ num = unit => byte = 255
        /\ num <= 0 => byte = 0
        /\ (num >= 0 /\ num * 1000 <= 999 * unit) =>
             (byte * unit <= 256 * num /\ 256 * num < (byte + 1) * unit)
        /\ \A m2 \in 2 .. Len(cout) : \A c2 \in 1 .. 3 :
             (image_buffer[m2 - 2].den = image_buffer[m - 2].den
              /\ num <= image_buffer[m2 - 2].rgb[c2])
               => byte <= ChannelByte(cout[m2], c2)

\* C13 witness: both lines are written; the first pixel had the channels
\* 1.0, -5.0 and 0.5 and its line is 255 0 128, the second was grey 1.25.
C13_Witness ==
  /\ main_pc = "done"
  /\ Len(cout) = 3
  /\ image_buffer[0] = [rgb |-> <<20, -100, 10>>, den |-> 1]
  /\ image_buffer[1].rgb = <<25, 25, 25>>
  /\ cout[2] = [kind |-> "pixel", r |-> 255, g |-> 0, b |-> 128]
  /\ cout[3] = [kind |-> "pixel", r |-> 255, g |-> 255, b |-> 255]

\* a worker thread that has started and not finished
Running(t) == w_pc[t] \in {"loop", "progress", "pixel"}

\* C14: under fair scheduling the render runs to completion: a running
\* worker can always take its next step whatever the other threads do, some
\* thread can step until the render is done, the caller is past the join loop
\* only when all workers are joined, whenever workers are running a state
\* follows in which every created worker has finished and is joined, and the
\* output stage is reached and completed with all workers joined.
C14_RunsToCompletion ==
  /\ [](\A t \in Threads : Running(t) => ENABLED WorkerStep(t))
  /\ [](main_pc # "done" =>
          (ENABLED MainStep \/ \E t \in Threads : ENABLED WorkerStep(t)))
  /\ [](AfterJoins => \A t \in 0 .. num_threads - 1 : w_pc[t] = "joined")
  /\ (\E t \in Threads : Running(t))
       ~> (\A t \in Threads : w_pc[t] \in {"none", "joined"})
  /\ <>(main_pc = "output")
  /\ <>(main_pc = "done" /\ \A t \in 0 .. num_threads - 1 : w_pc[t] = "joined")

\* C14 witness: a render of 7 rows by three workers has ended with every
\* worker joined.
C14_Witness ==
  /\ main_pc = "done"
  /\ image_height = 7
  /\ num_threads = 3
  /\ \A t \in 0 .. 2 : w_pc[t] = "joined"
  /\ Len(cout) = 8

\* the workers about to write a progress line
Pending == {t \in Threads : w_pc[t] = "progress"}

\* the values a finished render must have reported
Reportable == {v \in 0 .. image_height - 1 : v % 10 = 0}

\* what is true of the progress lines in every state
C15_Lines ==
  /\ \A m \in 1 .. Len(ProgressLines) :
       /\ ProgressLines[m].remaining \in Reportable
       /\ ProgressLines[m].by \in Spawned
       /\ \A n \in 1 .. Len(ProgressLines) :
            ProgressLines[m].remaining = ProgressLines[n].remaining => m = n
       /\ \A t \in Pending : w_remaining[t] # ProgressLines[m].remaining
  /\ \A t \in Pending :
       /\ w_remaining[t] \in Reportable
       /\ \A u \in Pending : w_remaining[t] = w_remaining[u] => t = u
  /\ AfterJoins =>
       {ProgressLines[m].remaining : m \in 1 .. Len(ProgressLines)} = Reportable

\* what is true of every decrement and of every write of a progress line
C15_Steps ==
  /\ \A t \in Threads :
       (w_pc[t] = "loop" /\ w_pc'[t] \in {"progress", "pixel"}) =>
         /\ scanlines_remaining' = scanlines_remaining - 1
         /\ w_pc'[t] = "progress" <=> scanlines_remaining' % 10 = 0
         /\ w_pc'[t] = "progress" => w_remaining'[t] = scanlines_remaining'
         /\ \A u \in Threads \ {t} :
              w_pc'[u] = w_pc[u] /\ w_remaining'[u] = w_remaining[u]
  /\ (Allocated /\ scanlines_remaining' # scanlines_remaining) =>
       \E t \in Threads : w_pc[t] = "loop" /\ w_pc'[t] \in {"progress", "pixel"}
  /\ ProgressLines' # ProgressLines =>
       /\ Len(ProgressLines') = Len(ProgressLines) + 1
       /\ LET e == ProgressLines'[Len(ProgressLines')]
          IN  /\ w_pc[e.by] = "progress"
              /\ w_pc'[e.by] = "pixel"
              /\ w_remaining[e.by] = e.remaining

\* C15: a progress line is written exactly by the worker whose decrement gave
\* a multiple of ten (0 included), with the value that decrement gave; each
\* decrement lowers the counter by one, so no two workers obtain the same
\* value; only multiples of ten in [0, H-1] are written, none twice, and when
\* the workers are joined each of them has been written once.
C15_ProgressLines == [](C15_Lines) /\ [][C15_Steps]_vars

\* C15 witness: 21 rows and two workers; the render has ended, the values
\* 20, 10 and 0 have each been written once, not all by the same worker.
C15_Witness ==
  /\ main_pc = "done"
  /\ image_height = 21
  /\ num_threads = 2
  /\ Len(ProgressLines) = 3
  /\ \E m, n \in 1 .. 3 : ProgressLines[m].by # ProgressLines[n].by

\* the loop form of ray_color: `acc` is the product of the attenuations of
\* the scatters made so far, `left` the bounce budget that remains
RECURSIVE LoopColor(_, _, _, _)
LoopColor(r, left, acc, wd) ==
  IF left <= 0 THEN <<0, 0, 0>>
  ELSE IF ~Hit(wd, r)
       THEN [c \in 1 .. 3 |-> acc[c] * Background(r)[c]]
       ELSE IF ~Scatter(wd, r).ok THEN <<0, 0, 0>>
            ELSE LoopColor(Scatter(wd, r).scattered, left - 1,
                           [c \in 1 .. 3 |-> acc[c] * Scatter(wd, r).attenuation[c]],
                           wd)

\* C16: the value of the recursive ray_color is the value of the loop that
\* accumulates the product of the attenuations: that product times the
\* background term when the ray misses after k < d scatters, black when a
\* hit absorbs or the budget d is used up; the call followed step by step
\* returns that value, and black when it has made d nested calls.
C16_LoopEquivalent ==
  /\ ray_color(rc_ray, max_depth, world)
       = LoopColor(rc_ray, max_depth, <<1, 1, 1>>, world)
  /\ rc_pc = "done" =>
       /\ rc_ret = LoopColor(rc_ray, max_depth, <<1, 1, 1>>, world)
       /\ (max_depth >= 0 /\ rc_calls = max_depth) => rc_ret = <<0, 0, 0>>

\* C16 witness: in the diffuse scene a call with budget 3 has scattered
\* twice, missed, and returned a colour that is not black.
C16_Witness ==
  /\ rc_pc = "done"
  /\ world = "diffuse"
  /\ max_depth = 3
  /\ rc_calls = 2
  /\ rc_queries = 3
  /\ rc_ret # Black
  /\ rc_ret[3] > rc_ret[1]

\* the sum of the background terms of `count` sample rays of pixel (i, j)
\* drawn by generator g
RECURSIVE BackgroundSum(_, _, _, _)
BackgroundSum(i, j, g, count) ==
  IF count = 0 THEN <<0, 0, 0>>
  ELSE LET gr == get_ray(i, j, g)
           rest == BackgroundSum(i, j, gr.rng, count - 1)
       IN  [c \in 1 .. 3 |-> Background(gr.ray)[c] + rest[c]]

\* the sample rays of pixel (i, j) when generator g draws them
RECURSIVE SampleRays(_, _, _, _)
SampleRays(i, j, g, count) ==
  IF count = 0 THEN {}
  ELSE LET gr == get_ray(i, j, g)
       IN  {gr.ray} \cup SampleRays(i, j, gr.rng, count - 1)

\* C17: with a budget of at least 1, a call whose first hit absorbs returns
\* black after that one scene query and no nested call, and a call whose ray
\* misses returns the background term; a scene without geometry gives the
\* background term.  A pixel whose sample rays are all absorbed sums to
\* black, and one whose sample rays all miss sums to their background terms.
C17_AbsorbAndMiss ==
  max_depth >= 1 =>
    /\ rc_pc = "done" =>
         /\ (Hit(world, rc_ray) /\ ~Scatter(world, rc_ray).ok) =>
              (rc_ret = <<0, 0, 0>> /\ rc_queries = 1 /\ rc_calls = 0)
         /\ ~Hit(world, rc_ray) =>
              (rc_ret = Background(rc_ray) /\ rc_queries = 1 /\ rc_calls = 0)
         /\ world = "empty" => rc_ret = Background(rc_ray)
    /\ \A i \in 0 .. image_width - 1 :
         \A j \in 0 .. ImageHeight(image_width, aspect_ratio) - 1 :
           \A s \in seed_pool : \A n \in 0 .. 2 : \A spp \in 1 .. MaxSamples :
             LET g == [seeded |-> TRUE, seed |-> s, n |-> n]
                 rays == SampleRays(i, j, g, spp)
                 px == SampleLoop(i, j, 0, Black, g, spp, max_depth, world)
             IN  /\ (\A r \in rays : Hit(world, r) /\ ~Scatter(world, r).ok)
                      => px.pixel_color = <<0, 0, 0>>
                 /\ (\A r \in rays : ~Hit(world, r))
                      => px.pixel_color = BackgroundSum(i, j, g, spp)

\* C17 witness: in the absorbing scene a call with budget 2 hit the absorber
\* and returned black after one scene query, where the background term of
\* its ray is not black.
C17_Witness ==
  /\ rc_pc = "done"
  /\ world = "absorber"
  /\ max_depth = 2
  /\ Hit(world, rc_ray)
  /\ rc_queries = 1
  /\ rc_calls = 0
  /\ rc_ret = Black
  /\ Background(rc_ray) # Black

\* floor(H / T)
RowsEach == image_height \div num_threads

\* what is true of the row ranges in every state
C18_Ranges ==
  \A t \in Spawned :
    /\ start_line[t] = t * RowsEach
    /\ t < num_threads - 1 => end_line[t] = (t + 1) * RowsEach
    /\ t = num_threads - 1 => end_line[t] = image_height
    /\ start_line[t] <= w_j[t] /\ w_j[t] <= end_line[t]
    /\ (image_height < num_threads /\ t < num_threads - 1) =>
         start_line[t] = end_line[t]
    /\ (image_height < num_threads /\ t = num_threads - 1) =>
         (start_line[t] = 0 /\ end_line[t] = image_height)

\* what is true of every step of a render whose workers exist
C18_Steps ==
  \A t \in Spawned :
    /\ start_line'[t] = start_line[t]
    /\ end_line'[t] = end_line[t]
    /\ w_j'[t] = w_j[t] \/ w_j'[t] = w_j[t] + 1
    /\ w_j'[t] = w_j[t] + 1 =>
         /\ w_j[t] < end_line[t]
         /\ \A i \in 0 .. image_width - 1 :
              Len(writers'[w_j[t] * image_width + i]) = 1

\* C18: worker t < T-1 has the rows [t*floor(H/T), (t+1)*floor(H/T)), the
\* last worker [(T-1)*floor(H/T), H); when H < T all ranges but the last are
\* empty and the last is [0, H); a worker's row index starts at its range's
\* start and only ever moves to the next row, after that row was stored,
\* and its range never changes.
C18_StaticPartition == [](C18_Ranges) /\ [][C18_Steps]_vars

\* C18 witness: 2 rows and 3 workers, all created: the first two ranges are
\* empty and the last worker has moved to row 1 of its range [0, 2).
C18_Witness ==
  /\ image_height = 2
  /\ num_threads = 3
  /\ threads = 3
  /\ start_line[0] = end_line[0]
  /\ start_line[1] = end_line[1]
  /\ start_line[2] = 0 /\ end_line[2] = 2
  /\ w_j[2] = 1

\* the buffer element of pixel (col, row) as the configuration alone gives it
FixedPixel(col, row) ==
  [rgb |-> SampleSum(col, row, 0, 0, samples_per_pixel),
   den |-> samples_per_pixel]

\* the image stream as the configuration alone gives it
FixedStream ==
  <<[kind |-> "header", magic |-> "P3", width |-> image_width,
     height |-> image_height, maxval |-> 255]>>
  \o [k \in 1 .. image_width * image_height |->
        write_color(FixedPixel((k - 1) % image_width, (k - 1) \div image_width))]

\* C19: when the colour of a pixel is a function of its coordinates, every
\* stored buffer element, the buffer after the joins and the finished image
\* stream are given by the configuration (width, height, scene, budget,
\* samples) alone: the worker count and the interleaving do not change them.
C19_ScheduleIndependent ==
  /\ \A k \in DOMAIN writers :
       Len(writers[k]) >= 1 =>
         image_buffer[k] = FixedPixel(k % image_width, k \div image_width)
  /\ AfterJoins =>
       /\ DOMAIN image_buffer = 0 .. image_width * image_height - 1
       /\ \A k \in DOMAIN image_buffer :
            image_buffer[k] = FixedPixel(k % image_width, k \div image_width)
  /\ main_pc = "done" => cout = FixedStream
  /\ \A m \in 1 .. Len(cout) : m <= Len(FixedStream) /\ cout[m] = FixedStream[m]

\* C19 witness: a 2x3 image of the diffuse scene rendered by two workers has
\* ended; the workers stored different rows, rows differ in colour, and the
\* progress lines were written by both workers.
C19_Witness ==
  /\ main_pc = "done"
  /\ image_width = 2
  /\ image_height = 3
  /\ num_threads = 2
  /\ world = "diffuse"
  /\ max_depth = 2
  /\ writers[0] = <<0>>
  /\ writers[5] = <<1>>
  /\ image_buffer[0] # image_buffer[2]
  /\ cout[2] # cout[4]

\* the elapsed-time lines on the diagnostic stream
DoneLines == SelectSeq(clog, LAMBDA e : e.kind = "done")

\* every worker thread of the render has been created and joined
AllJoined ==
  /\ threads = num_threads
  /\ num_threads >= 1
  /\ \A t \in 0 .. num_threads - 1 : w_pc[t] = "joined"

\* what is true of the elapsed-time line in every state
C20_Line ==
  /\ Len(DoneLines) <= 1
  /\ Len(DoneLines) = 1 =>
       /\ clog[Len(clog)].kind = "done"
       /\ AllJoined
       /\ Pending = {}
       /\ main_pc \in {"output", "done"}
  /\ main_pc \in {"output", "done"} => Len(DoneLines) = 1
  /\ Len(PixelLines) > 0 => Len(DoneLines) = 1

\* what is true of every step that writes to the diagnostic stream
C20_Steps ==
  /\ DoneLines' # DoneLines =>
       /\ AllJoined
       /\ PixelLines = <<>>
       /\ clog' = Append(clog, [kind |-> "done", remaining |-> 0, by |-> -1])
  /\ (clog' # clog /\ DoneLines' = DoneLines) => DoneLines = <<>>

\* C20: the elapsed-time line is written exactly once, when every worker has
\* been joined and no pixel line has been written; it is the last entry of
\* the diagnostic stream from then on, so every progress line precedes it,
\* and the output stage is never entered without it.
C20_ElapsedTimeLast == [](C20_Line) /\ [][C20_Steps]_vars

\* C20 witness: 21 rows, two workers: the output loop is about to write its
\* first pixel line, and the diagnostic stream holds three progress lines
\* followed by the elapsed-time line.
C20_Witness ==
  /\ main_pc = "output"
  /\ out_k = 0
  /\ PixelLines = <<>>
  /\ image_height = 21
  /\ num_threads = 2
  /\ Len(clog) = 4
  /\ Len(ProgressLines) = 3
  /\ clog[4].kind = "done"

=============================================================================
